---- MODULE Spec2Model ----
(***************************************************************************)
(* Model of modules/helpers/resource_lifecycle_py.py: the AST-based        *)
(* detector of unreleased resource handles.                                *)
(*                                                                         *)
(* main() loops over the files of a project; analyze() reads and parses a  *)
(* file, builds an Analyzer and lets ast.NodeVisitor walk the tree in      *)
(* pre-order.  Every visit_* handler does all of its own work before it    *)
(* calls generic_visit, so the walk is modelled with an explicit stack of  *)
(* pending nodes: one action pops the next node, runs its handler and      *)
(* pushes the node's children in field order.                              *)
(*                                                                         *)
(* An AST node is the record [type, id, asname, kids]; kids are the child  *)
(* nodes in the order generic_visit walks them.  id(node) is modelled by   *)
(* the node's path in the tree, <<line, child index, ...>>.  Python's None *)
(* is the string "None".                                                   *)
(***************************************************************************)
EXTENDS Integers, Sequences, FiniteSets, TLC

\* ---------------------------------------------------------------- bounds
MaxStmts == 3

MaxFiles == 2

\* ------------------------------------------------------------ AST nodes
None == "None"

Truthy(v) == v /= None /\ v /= ""

Node(t, id, as, kids) == [type |-> t, id |-> id, asname |-> as, kids |-> kids]

Name(id) == Node("Name", id, None, <<>>)

Constant == Node("Constant", None, None, <<>>)

Attribute(value, attr) == Node("Attribute", attr, None, <<value>>)

\* ast.Call: func, then args (keywords are wrapped in keyword nodes)
Call(func, args) == Node("Call", None, None, <<func>> \o args)

keyword(arg, value) == Node("keyword", arg, None, <<value>>)

Await(value) == Node("Await", None, None, <<value>>)

Tuple(elts) == Node("Tuple", None, None, elts)

List(elts) == Node("List", None, None, elts)

\* ast.Assign: targets, then value (the last child)
Assign(targets, value) == Node("Assign", None, None, targets \o <<value>>)

\* ast.AnnAssign: target, annotation, then value when there is one
AnnAssign(target, value) == Node("AnnAssign", None, None, <<target, Name("T")>> \o value)

Expr(value) == Node("Expr", None, None, <<value>>)

Pass == Node("Pass", None, None, <<>>)

Return(value) == Node("Return", None, None, <<value>>)

FunctionDef(name, body) == Node("FunctionDef", name, None, body)

\* ast.If: test, body, orelse
If(test, body, orelse) == Node("If", None, None, <<test>> \o body \o orelse)

\* ast.withitem: context_expr, then optional_vars when there is an `as`
withitem(context_expr, optional_vars) == Node("withitem", None, None, <<context_expr>> \o optional_vars)

\* ast.With / ast.AsyncWith: items, then body; asname holds nothing, the
\* items are the children of type withitem
With(items, body) == Node("With", None, None, items \o body)

AsyncWith(items, body) == Node("AsyncWith", None, None, items \o body)

alias(name, asname) == Node("alias", name, asname, <<>>)

Import(names) == Node("Import", None, None, names)

ImportFrom(module, names) == Node("ImportFrom", module, None, names)

\* Children of a node with their identities, in generic_visit order
Entries(node, path) == [i \in 1..Len(node.kids) |-> [node |-> node.kids[i], path |-> Append(path, i)]]

\* node.lineno: every statement of a file is written on a line of its own
Lineno(path) == path[1]

\* ------------------------------------------------------ signature registry
TARGET_SIGS ==
    (<<None, "open">> :> "file_handle") @@
    (<<None, "connect">> :> "socket_handle") @@
    (<<None, "Popen">> :> "popen_handle") @@
    (<<None, "popen">> :> "popen_handle") @@
    (<<"socket", "socket">> :> "socket_handle") @@
    (<<"subprocess", "Popen">> :> "popen_handle") @@
    (<<"asyncio", "create_task">> :> "asyncio_task") @@
    (<<"context", "WithCancel">> :> "context_cancel") @@
    (<<"context", "WithTimeout">> :> "context_cancel") @@
    (<<"context", "WithDeadline">> :> "context_cancel")

\* a dict: iterated in insertion order
RELEASE_METHODS ==
    << [kind |-> "file_handle", methods |-> {"close"}],
       [kind |-> "socket_handle", methods |-> {"close"}],
       [kind |-> "popen_handle", methods |-> {"wait", "communicate", "terminate", "kill"}],
       [kind |-> "asyncio_task", methods |-> {"cancel"}] >>

Kinds == {"file_handle", "socket_handle", "popen_handle", "asyncio_task", "context_cancel"}

ResourceRecord(name, kind, lineno) == [name |-> name, kind |-> kind, lineno |-> lineno, released |-> FALSE]

\* ------------------------------------------------------------- dict helpers
EmptyDict == [k \in {} |-> None]

Get(d, k, default) == IF k \in DOMAIN d THEN d[k] ELSE default

Put(d, k, v) == [x \in DOMAIN d \cup {k} |-> IF x = k THEN v ELSE d[x]]

\* ------------------------------------------------------ signature resolver
NoSig == <<>>

\* the AttributeError of `call.func` on a node that has no such field
AttributeError == <<"AttributeError">>

BareCallables == {"open", "connect", "Popen", "popen"}

_call_signature(al, call) ==
    IF call.type /= "Call" THEN AttributeError
    ELSE LET func == call.kids[1] IN
         IF func.type = "Name" THEN
            LET a == Get(al, func.id, <<None, None>>) IN
            IF Truthy(a[2]) THEN <<a[1], a[2]>> ELSE <<a[1], func.id>>
         ELSE IF func.type = "Attribute" THEN
            LET base == func.kids[1]
                attr == func.id IN
            IF base.type = "Name" THEN
               LET a == Get(al, base.id, <<base.id, None>>)
                   module == IF Truthy(a[2]) /\ ~Truthy(a[1]) THEN a[2] ELSE a[1] IN
               IF attr \in BareCallables THEN <<None, attr>> ELSE <<module, attr>>
            ELSE IF attr \in BareCallables THEN <<None, attr>>
            ELSE NoSig
         ELSE NoSig

_call_signature_from_expr(al, expr) ==
    IF expr.type = "Call" THEN _call_signature(al, expr) ELSE NoSig

\* ------------------------------------------------------------ record store
\* An Analyzer is the record [aliases, records, by_name, safe_calls,
\* assigned_calls, exc]: records in creation order, by_name from an owner name
\* to the indices of its records in creation order, exc the exception that
\* is propagating out of the handler (None when there is none).
\* mutant: a record of a name that has records starts with the flag of the
\* name's latest record
mut_add_record_inherits_flag(st, name, kind, lineno) ==
    LET old == Get(st.by_name, name, <<>>)
        flag == IF old = <<>> THEN FALSE ELSE st.records[old[Len(old)]].released
        recs == Append(st.records, [ResourceRecord(name, kind, lineno) EXCEPT !.released = flag])
        i == Len(recs) IN
    [st EXCEPT !.records = recs,
               !.by_name = IF Truthy(name)
                           THEN Put(st.by_name, name, Append(Get(st.by_name, name, <<>>), i))
                           ELSE st.by_name]

_add_record(st, name, kind, lineno) ==
    LET recs == Append(st.records, ResourceRecord(name, kind, lineno))
        i == Len(recs) IN
    [st EXCEPT !.records = recs,
               !.by_name = IF Truthy(name)
                           THEN Put(st.by_name, name, Append(Get(st.by_name, name, <<>>), i))
                           ELSE st.by_name]

\* mutant: the records are matched by kind alone, whoever owns them
mut_mark_released_any_owner(st, name, kind) ==
    LET hits == {i \in 1..Len(st.records) :
                    ~st.records[i].released /\ st.records[i].kind = kind} IN
    IF hits = {} THEN st
    ELSE [st EXCEPT !.records[CHOOSE x \in hits : \A y \in hits : x <= y].released = TRUE]

\* mutant: the last matching record is marked instead of the first
mut_mark_released_last(st, name, kind) ==
    LET entries == Get(st.by_name, name, <<>>)
        hits == {j \in 1..Len(entries) :
                    /\ ~st.records[entries[j]].released
                    /\ st.records[entries[j]].kind = kind} IN
    IF hits = {} THEN st
    ELSE LET j == CHOOSE x \in hits : \A y \in hits : x >= y IN
         [st EXCEPT !.records[entries[j]].released = TRUE]

\* mutant: the flag of the first record of the kind is flipped, set or not
mut_mark_released_toggle(st, name, kind) ==
    LET entries == Get(st.by_name, name, <<>>)
        hits == {j \in 1..Len(entries) : st.records[entries[j]].kind = kind} IN
    IF hits = {} THEN st
    ELSE LET j == CHOOSE x \in hits : \A y \in hits : x <= y IN
         [st EXCEPT !.records[entries[j]].released = ~@]

\* mutant: the first unreleased record of the name is marked, whatever its kind
mut_mark_released_any_kind(st, name, kind) ==
    LET entries == Get(st.by_name, name, <<>>)
        hits == {j \in 1..Len(entries) : ~st.records[entries[j]].released} IN
    IF hits = {} THEN st
    ELSE LET j == CHOOSE x \in hits : \A y \in hits : x <= y IN
         [st EXCEPT !.records[entries[j]].released = TRUE]

_mark_released(st, name, kind) ==
    LET entries == Get(st.by_name, name, <<>>)
        hits == {j \in 1..Len(entries) :
                    /\ ~st.records[entries[j]].released
                    /\ st.records[entries[j]].kind = kind} IN
    IF hits = {} THEN st
    ELSE LET j == CHOOSE x \in hits : \A y \in hits : x <= y IN
         [st EXCEPT !.records[entries[j]].released = TRUE]

\* ---------------------------------------------------------------- handlers
RECURSIVE _collect_names(_)
_collect_names(node) ==
    IF node.type = "Name" THEN <<node.id>>
    ELSE IF node.type \in {"Tuple", "List"} THEN
        LET RECURSIVE extend(_, _)
            extend(names, i) ==
                IF i > Len(node.kids) THEN names
                ELSE extend(names \o _collect_names(node.kids[i]), i + 1)
        IN extend(<<>>, 1)
    ELSE <<>>

RECURSIVE TargetNames(_)
TargetNames(targets) ==
    IF targets = <<>> THEN <<>>
    ELSE _collect_names(Head(targets)) \o TargetNames(Tail(targets))

RECURSIVE AddRecords(_, _, _, _)

\* mutant: the loop over the bound names ends after the first name
mut_AddRecords_first_only(self, names, kind, lineno) ==
    IF names = <<>> THEN self
    ELSE _add_record(self, Head(names), kind, lineno)

AddRecords(self, names, kind, lineno) ==
    IF names = <<>> THEN self
    ELSE AddRecords(_add_record(self, Head(names), kind, lineno), Tail(names), kind, lineno)

\* mutant: a cancellable context is given to the first bound name
mut_handle_assignment_first_name(self, targets, value, value_id, lineno) ==
    LET sig == _call_signature(self.aliases, value) IN
    IF sig = AttributeError THEN [self EXCEPT !.exc = "AttributeError"]
    ELSE IF sig = NoSig THEN self
    ELSE IF sig \notin DOMAIN TARGET_SIGS THEN self
    ELSE LET kind == TARGET_SIGS[sig]
             marked == [self EXCEPT !.assigned_calls = @ \cup {value_id}]
             names == TargetNames(targets) IN
         IF kind = "context_cancel" THEN
            IF Len(names) >= 1 THEN _add_record(marked, names[1], kind, lineno)
            ELSE _add_record(marked, None, kind, lineno)
         ELSE IF names = <<>> THEN _add_record(marked, None, kind, lineno)
         ELSE AddRecords(marked, names, kind, lineno)

\* value_id is id(value), lineno is value.lineno
_handle_assignment(self, targets, value, value_id, lineno) ==
    LET sig == _call_signature(self.aliases, value) IN
    IF sig = AttributeError THEN [self EXCEPT !.exc = "AttributeError"]
    ELSE IF sig = NoSig THEN self
    ELSE IF sig \notin DOMAIN TARGET_SIGS THEN self
    ELSE LET kind == TARGET_SIGS[sig]
             marked == [self EXCEPT !.assigned_calls = @ \cup {value_id}]
             names == TargetNames(targets) IN
         IF kind = "context_cancel" THEN
            IF Len(names) >= 2 THEN _add_record(marked, names[2], kind, lineno)
            ELSE IF Len(names) = 1 THEN _add_record(marked, names[1], kind, lineno)
            ELSE _add_record(marked, None, kind, lineno)
         ELSE IF names = <<>> THEN _add_record(marked, None, kind, lineno)
         ELSE AddRecords(marked, names, kind, lineno)

\* items are the with-items with their identities
RECURSIVE _mark_safe(_, _)

\* mutant: only the first item of the statement is looked at
mut_mark_safe_first_only(self, items) ==
    IF items = <<>> THEN self
    ELSE LET item == Head(items)
             sig == _call_signature_from_expr(self.aliases, item.node.kids[1]) IN
         IF sig /= NoSig /\ sig \in DOMAIN TARGET_SIGS
         THEN [self EXCEPT !.safe_calls = @ \cup {Append(item.path, 1)}]
         ELSE self

_mark_safe(self, items) ==
    IF items = <<>> THEN self
    ELSE LET item == Head(items)
             sig == _call_signature_from_expr(self.aliases, item.node.kids[1])
             next == IF sig /= NoSig /\ sig \in DOMAIN TARGET_SIGS
                     THEN [self EXCEPT !.safe_calls = @ \cup {Append(item.path, 1)}]
                     ELSE self IN
         _mark_safe(next, Tail(items))

\* mutant: the last kind whose release methods hold `method` wins
mut_ReleaseKind_last_match(method) ==
    LET hits == {i \in 1..Len(RELEASE_METHODS) : method \in RELEASE_METHODS[i].methods} IN
    IF hits = {} THEN None
    ELSE RELEASE_METHODS[CHOOSE i \in hits : \A j \in hits : i >= j].kind

\* the first kind, in the table's order, whose release methods hold `method`
ReleaseKind(method) ==
    LET hits == {i \in 1..Len(RELEASE_METHODS) : method \in RELEASE_METHODS[i].methods} IN
    IF hits = {} THEN None
    ELSE RELEASE_METHODS[CHOOSE i \in hits : \A j \in hits : i <= j].kind

_handle_release(self, node) ==
    LET func == node.kids[1] IN
    IF func.type = "Attribute" /\ func.kids[1].type = "Name" THEN
        LET kind == ReleaseKind(func.id) IN
        IF kind = None THEN self ELSE _mark_released(self, func.kids[1].id, kind)
    ELSE IF func.type = "Name" THEN _mark_released(self, func.id, "context_cancel")
    ELSE self

\* mutant: the set of calls already classified by an assignment is not consulted
mut_visit_Call_unaware_of_assignment(self, node, path) ==
    LET sig == _call_signature(self.aliases, node)
        added == IF /\ sig /= NoSig
                    /\ sig \in DOMAIN TARGET_SIGS
                    /\ path \notin self.safe_calls
                 THEN _add_record(self, None, TARGET_SIGS[sig], Lineno(path))
                 ELSE self IN
    _handle_release(added, node)

\* mutant: a call inside a call that an assignment classified or a with-item
\* exempted is passed over like the enclosing call
mut_visit_Call_exemption_inherited(self, node, path) ==
    LET sig == _call_signature(self.aliases, node)
        exempt == self.assigned_calls \cup self.safe_calls
        added == IF /\ \A k \in 1..Len(path) : SubSeq(path, 1, k) \notin exempt
                    /\ sig /= NoSig
                    /\ sig \in DOMAIN TARGET_SIGS
                 THEN _add_record(self, None, TARGET_SIGS[sig], Lineno(path))
                 ELSE self IN
    _handle_release(added, node)

visit_Call(self, node, path) ==
    LET sig == _call_signature(self.aliases, node)
        added == IF /\ path \notin self.assigned_calls
                    /\ sig /= NoSig
                    /\ sig \in DOMAIN TARGET_SIGS
                    /\ path \notin self.safe_calls
                 THEN _add_record(self, None, TARGET_SIGS[sig], Lineno(path))
                 ELSE self IN
    _handle_release(added, node)

\* mutant: an await releases nothing
mut_visit_Await_ignored(self, node) == self

visit_Await(self, node) ==
    IF node.kids[1].type = "Name"
    THEN _mark_released(self, node.kids[1].id, "asyncio_task")
    ELSE self

RECURSIVE visit_Import(_, _)
visit_Import(self, names) ==
    IF names = <<>> THEN self
    ELSE LET a == Head(names)
             asname == IF Truthy(a.asname) THEN a.asname ELSE a.id IN
         visit_Import([self EXCEPT !.aliases = Put(@, asname, <<a.id, None>>)], Tail(names))

RECURSIVE visit_ImportFrom(_, _, _)
visit_ImportFrom(self, module, names) ==
    IF names = <<>> THEN self
    ELSE LET a == Head(names)
             asname == IF Truthy(a.asname) THEN a.asname ELSE a.id
             next == IF a.id = "*" THEN self
                     ELSE [self EXCEPT !.aliases = Put(@, asname, <<module, a.id>>)] IN
         visit_ImportFrom(next, module, Tail(names))

\* report(): one issue per unreleased record, in the order of the records
RECURSIVE report(_, _)

\* mutant: released records are reported too
mut_report_all(recs, path) ==
    [i \in 1..Len(recs) |-> [path |-> path, lineno |-> recs[i].lineno, kind |-> recs[i].kind]]

report(recs, path) ==
    IF recs = <<>> THEN <<>>
    ELSE IF Head(recs).released THEN report(Tail(recs), path)
    ELSE <<[path |-> path, lineno |-> Head(recs).lineno, kind |-> Head(recs).kind]>>
         \o report(Tail(recs), path)

\* ------------------------------------------------------- the files scanned
\* Statements a file is made of.  a and b are the program's variables.
a == Name("a")

b == Name("b")

open_call == Call(Name("open"), <<>>)

socket_call == Call(Attribute(Name("socket"), "socket"), <<>>)

Popen_call == Call(Attribute(Name("subprocess"), "Popen"), <<Name("cmd")>>)

create_task_call == Call(Attribute(Name("asyncio"), "create_task"), <<Call(Name("fetch_user"), <<>>)>>)

WithCancel_call == Call(Attribute(Name("context"), "WithCancel"), <<>>)

sleep_call == Call(Attribute(Name("asyncio"), "sleep"), <<>>)

AcquireStmts ==
    {Assign(<<a>>, c) : c \in {open_call, socket_call, Popen_call, create_task_call}} \cup
    { Assign(<<Tuple(<<a, b>>)>>, WithCancel_call),         \* a, b = context.WithCancel()
      Assign(<<a, b>>, open_call),                          \* a = b = open(..)
      Assign(<<Attribute(Name("self"), "f")>>, open_call),  \* self.f = open(..)
      AnnAssign(a, <<open_call>>),                          \* a: T = open(..)
      Expr(open_call),                                      \* open(..)
      Assign(<<a>>, Call(Name("sk"), <<>>)),                \* a = sk()
      Expr(Call(Name("Popen"), <<Name("cmd")>>)) }          \* Popen(cmd)

NonCallStmts ==
    { Assign(<<a>>, Constant),                              \* a = 1
      Assign(<<a>>, Await(sleep_call)),                     \* a = await asyncio.sleep(..)
      AnnAssign(a, <<Constant>>),                           \* a: T = 1
      AnnAssign(a, <<>>) }                                  \* a: T

ReleaseStmts ==
    {Expr(Call(Attribute(a, m), <<>>)) :
        m \in {"close", "wait", "communicate", "terminate", "kill", "cancel", "done"}} \cup
    { Expr(Call(Attribute(b, "close"), <<>>)),
      Expr(Call(a, <<>>)),
      Expr(Call(b, <<>>)),
      Expr(Await(a)),
      Expr(Await(sleep_call)) }

WithStmts ==
    { With(<<withitem(open_call, <<a>>)>>, <<Pass>>),
      With(<<withitem(Name("lock"), <<>>), withitem(open_call, <<>>), withitem(socket_call, <<a>>)>>,
           <<Expr(open_call)>>),
      AsyncWith(<<withitem(Call(Name("open"), <<open_call>>), <<a>>)>>, <<Pass>>) }

OtherStmts ==
    { Import(<<alias("asyncio", None)>>),
      ImportFrom("socket", <<alias("socket", "sk")>>),
      ImportFrom("subprocess", <<alias("*", None)>>),
      FunctionDef("f", <<Return(a)>>),
      \* if ok: a.close()
      \* else: a.close()
      If(Name("ok"), <<Expr(Call(Attribute(a, "close"), <<>>))>>, <<Expr(Call(Attribute(a, "close"), <<>>))>>) }

Stmts == AcquireStmts \cup NonCallStmts \cup ReleaseStmts \cup WithStmts \cup OtherStmts

cmd == Name("cmd")

\* Statements of the files of a scan that is followed file by file: imports
\* and the calls they rename, calls inside calls, and one statement for each
\* handler of the Analyzer.
FileStmts ==
    { ImportFrom("subprocess", <<alias("*", None)>>),       \* from subprocess import *
      Expr(Call(Name("Popen"), <<cmd>>)),                   \* Popen(cmd)
      ImportFrom("os", <<alias("popen", None)>>),           \* from os import popen
      Assign(<<a>>, Call(Name("popen"), <<cmd>>)),          \* a = popen(cmd)
      Import(<<alias("asyncio", None)>>),                   \* import asyncio
      \* a = subprocess.Popen(cmd, stdout=open(..))
      Assign(<<a>>, Call(Attribute(Name("subprocess"), "Popen"), <<cmd, keyword("stdout", open_call)>>)),
      \* async with open(open(..)) as a: pass
      AsyncWith(<<withitem(Call(Name("open"), <<open_call>>), <<a>>)>>, <<Pass>>),
      \* with open(..) as a: open(..).read()
      With(<<withitem(open_call, <<a>>)>>, <<Expr(Call(Attribute(open_call, "read"), <<>>))>>),
      AnnAssign(a, <<open_call>>),                          \* a: T = open(..)
      Expr(Await(a)),                                       \* await a
      Expr(Call(Attribute(a, "close"), <<>>)),              \* a.close()
      Assign(<<a, b>>, open_call),                          \* a = b = open(..)
      \* (a, [b]) = c = socket.socket()
      Assign(<<Tuple(<<a, List(<<b>>)>>), Name("c")>>, socket_call),
      Assign(<<a>>, Constant) }                             \* a = 1

\* ------------------------------------------------------------------- state
VARIABLES
    pc,             \* "main": in main()'s loop; "visit": in analyzer.visit(tree);
                    \* "done": main() returned; "crashed": an exception left main()
    fileNo,         \* number of files main()'s loop has taken from collect_files
    used,           \* statements read so far in the scan (bounded by MaxStmts)
    line,           \* line of the statement of the module body being visited
    stmt,           \* that statement
    stack,          \* nodes still to visit, the next one first
    aliases, records, by_name, safe_calls, assigned_calls,   \* the Analyzer
    exc,            \* the exception that ended the scan
    issues,         \* main()'s list of issues
    out,            \* what main() printed
    origin,         \* history: for each record, the node it was created for
    seen,           \* history: the statements of the file visited so far, in
                    \* order, in a scan that is followed file by file
    followed        \* whether the scan is followed file by file

vars == <<pc, fileNo, used, line, stmt, stack, aliases, records, by_name,
          safe_calls, assigned_calls, exc, issues, out, origin, seen, followed>>

analyzer == <<aliases, records, by_name, safe_calls, assigned_calls>>

Self == [aliases |-> aliases, records |-> records, by_name |-> by_name,
         safe_calls |-> safe_calls, assigned_calls |-> assigned_calls, exc |-> None]

\* mutant: the alias table is one dict shared by every Analyzer
mut_NewAnalyzer_shared_aliases ==
    [aliases |-> aliases, records |-> <<>>, by_name |-> EmptyDict,
     safe_calls |-> {}, assigned_calls |-> {}, exc |-> None]

\* Analyzer.__init__
NewAnalyzer == [aliases |-> EmptyDict, records |-> <<>>, by_name |-> EmptyDict,
                safe_calls |-> {}, assigned_calls |-> {}, exc |-> None]

NoStmt == Pass

\* a value of the history `seen`: the body, in a scan that is followed
Remember(body) == IF followed THEN body ELSE <<>>

\* the statements the files of the scan are made of
Body == IF followed THEN FileStmts ELSE Stmts

SetAnalyzer(self) ==
    /\ aliases' = self.aliases
    /\ records' = self.records
    /\ by_name' = self.by_name
    /\ safe_calls' = self.safe_calls
    /\ assigned_calls' = self.assigned_calls

\* the handler left the analyzer as `self`, its new records created for `node_id`
Becomes(self, node_id) ==
    /\ SetAnalyzer(self)
    /\ origin' = origin \o [i \in 1..(Len(self.records) - Len(records)) |-> node_id]

Init ==
    /\ pc = "main"
    /\ fileNo = 0
    /\ used = 0
    /\ line = 0
    /\ stmt = NoStmt
    /\ stack = <<>>
    /\ aliases = EmptyDict
    /\ records = <<>>
    /\ by_name = EmptyDict
    /\ safe_calls = {}
    /\ assigned_calls = {}
    /\ exc = None
    /\ issues = <<>>
    /\ out = <<>>
    /\ origin = <<>>
    /\ seen = <<>>
    /\ followed = FALSE

\* ------------------------------------------------------------ main, analyze
\* analyze(): path.read_text raises OSError; the file yields no issue
ReadFails ==
    /\ pc = "main"
    /\ fileNo < MaxFiles
    /\ fileNo' = fileNo + 1
    /\ UNCHANGED <<pc, used, line, stmt, stack, analyzer, exc, issues, out, origin, seen, followed>>

\* analyze(): the bytes of the file are not UTF-8; read_text(encoding="utf-8")
\* raises UnicodeDecodeError, a ValueError, which `except OSError` lets through
ReadUndecodable ==
    /\ pc = "main"
    /\ fileNo < MaxFiles
    /\ fileNo' = fileNo + 1
    /\ pc' = "crashed"
    /\ exc' = "UnicodeDecodeError"
    /\ UNCHANGED <<used, line, stmt, stack, analyzer, issues, out, origin, seen, followed>>

\* analyze(): ast.parse raises SyntaxError; the file yields no issue
ParseFails ==
    /\ pc = "main"
    /\ fileNo < MaxFiles
    /\ fileNo' = fileNo + 1
    /\ UNCHANGED <<pc, used, line, stmt, stack, analyzer, exc, issues, out, origin, seen, followed>>

\* analyze(): the file is read and parsed, Analyzer(tree) is constructed and
\* analyzer.visit(tree) starts on the Module node
AnalyzeStart ==
    /\ pc = "main"
    /\ fileNo < MaxFiles
    /\ fileNo' = fileNo + 1
    /\ pc' = "visit"
    /\ line' = 0
    /\ stmt' = NoStmt
    /\ stack' = <<>>
    /\ SetAnalyzer(NewAnalyzer)
    /\ origin' = <<>>
    /\ seen' = Remember(<<>>)
    /\ UNCHANGED <<used, exc, issues, out, followed>>

\* generic_visit(Module): the next statement of the body
VisitStmt ==
    /\ pc = "visit"
    /\ stack = <<>>
    /\ used < MaxStmts
    /\ \E s \in Body :
        /\ stmt' = s
        /\ stack' = <<[node |-> s, path |-> <<line + 1>>]>>
        /\ seen' = Remember(Append(seen, s))
    /\ line' = line + 1
    /\ used' = used + 1
    /\ UNCHANGED <<pc, fileNo, analyzer, exc, issues, out, origin, followed>>

\* the body is exhausted: analyzer.report(path), issues.extend(..); the
\* Analyzer is dropped
Report ==
    /\ pc = "visit"
    /\ stack = <<>>
    /\ issues' = issues \o report(records, fileNo)
    /\ pc' = "main"
    /\ line' = 0
    /\ stmt' = NoStmt
    /\ SetAnalyzer(NewAnalyzer)
    /\ origin' = <<>>
    /\ seen' = Remember(<<>>)
    /\ UNCHANGED <<fileNo, used, stack, exc, out, followed>>

\* collect_files has no more files: print the issues, if any
Finish ==
    /\ pc = "main"
    /\ pc' = "done"
    /\ out' = issues
    /\ UNCHANGED <<fileNo, used, line, stmt, stack, analyzer, exc, issues, origin, seen, followed>>

\* ------------------------------------------------------------ the traversal
Top == Head(stack)

Visiting(types) == pc = "visit" /\ stack /= <<>> /\ Top.node.type \in types

\* generic_visit(node): the children are visited next, in field order
Descend == stack' = Entries(Top.node, Top.path) \o Tail(stack)

\* an exception leaves the handler; nothing in main() catches it
Raise(e) ==
    /\ pc' = "crashed"
    /\ exc' = e
    /\ stack' = <<>>
    /\ UNCHANGED <<fileNo, used, line, stmt, analyzer, issues, out, origin, seen, followed>>

Assignment(targets, value_index) ==
    LET value == Top.node.kids[value_index]
        value_id == Append(Top.path, value_index)
        self == _handle_assignment(Self, targets, value, value_id, Lineno(value_id)) IN
    IF self.exc /= None THEN Raise(self.exc)
    ELSE /\ Becomes(self, value_id)
         /\ Descend
         /\ UNCHANGED <<pc, fileNo, used, line, stmt, exc, issues, out, seen, followed>>

VisitAssign ==
    /\ Visiting({"Assign"})
    /\ Assignment(SubSeq(Top.node.kids, 1, Len(Top.node.kids) - 1), Len(Top.node.kids))

VisitAnnAssign ==
    /\ Visiting({"AnnAssign"})
    /\ IF Len(Top.node.kids) = 3
       THEN Assignment(<<Top.node.kids[1]>>, 3)
       ELSE /\ Descend
            /\ UNCHANGED <<pc, fileNo, used, line, stmt, analyzer, exc, issues, out, origin, seen, followed>>

VisitImport ==
    /\ Visiting({"Import"})
    /\ Becomes(visit_Import(Self, Top.node.kids), Top.path)
    /\ stack' = Tail(stack)
    /\ UNCHANGED <<pc, fileNo, used, line, stmt, exc, issues, out, seen, followed>>

VisitImportFrom ==
    /\ Visiting({"ImportFrom"})
    /\ LET module == IF Truthy(Top.node.id) THEN Top.node.id ELSE "" IN
       Becomes(visit_ImportFrom(Self, module, Top.node.kids), Top.path)
    /\ stack' = Tail(stack)
    /\ UNCHANGED <<pc, fileNo, used, line, stmt, exc, issues, out, seen, followed>>

WithItems(entries) == SelectSeq(entries, LAMBDA e : e.node.type = "withitem")

VisitWith ==
    /\ Visiting({"With"})
    /\ Becomes(_mark_safe(Self, WithItems(Entries(Top.node, Top.path))), Top.path)
    /\ Descend
    /\ UNCHANGED <<pc, fileNo, used, line, stmt, exc, issues, out, seen, followed>>

VisitAsyncWith ==
    /\ Visiting({"AsyncWith"})
    /\ Becomes(_mark_safe(Self, WithItems(Entries(Top.node, Top.path))), Top.path)
    /\ Descend
    /\ UNCHANGED <<pc, fileNo, used, line, stmt, exc, issues, out, seen, followed>>

VisitCall ==
    /\ Visiting({"Call"})
    /\ Becomes(visit_Call(Self, Top.node, Top.path), Top.path)
    /\ Descend
    /\ UNCHANGED <<pc, fileNo, used, line, stmt, exc, issues, out, seen, followed>>

VisitAwait ==
    /\ Visiting({"Await"})
    /\ Becomes(visit_Await(Self, Top.node), Top.path)
    /\ Descend
    /\ UNCHANGED <<pc, fileNo, used, line, stmt, exc, issues, out, seen, followed>>

Handled == {"Assign", "AnnAssign", "Import", "ImportFrom", "With", "AsyncWith", "Call", "Await"}

\* every other node: NodeVisitor.generic_visit
GenericVisit ==
    /\ pc = "visit" /\ stack /= <<>> /\ Top.node.type \notin Handled
    /\ Descend
    /\ UNCHANGED <<pc, fileNo, used, line, stmt, analyzer, exc, issues, out, origin, seen, followed>>

Next ==
    \/ ReadFails \/ ReadUndecodable \/ ParseFails \/ AnalyzeStart
    \/ VisitStmt \/ Report \/ Finish
    \/ VisitAssign \/ VisitAnnAssign \/ VisitImport \/ VisitImportFrom
    \/ VisitWith \/ VisitAsyncWith \/ VisitCall \/ VisitAwait \/ GenericVisit

Spec == Init /\ [][Next]_vars

\* The same scan, followed file by file: `seen` remembers the statements of
\* the file being analysed, which are drawn from FileStmts.
InitFiles ==
    /\ pc = "main"
    /\ fileNo = 0
    /\ used = 0
    /\ line = 0
    /\ stmt = NoStmt
    /\ stack = <<>>
    /\ aliases = EmptyDict
    /\ records = <<>>
    /\ by_name = EmptyDict
    /\ safe_calls = {}
    /\ assigned_calls = {}
    /\ exc = None
    /\ issues = <<>>
    /\ out = <<>>
    /\ origin = <<>>
    /\ seen = <<>>
    /\ followed = TRUE

SpecFiles == InitFiles /\ [][Next]_vars

\* ================================================================== claims
\* What the node on top of the stack is, for the statements of the claims.
IsAssignment ==
    \/ Visiting({"Assign"})
    \/ Visiting({"AnnAssign"}) /\ Len(Top.node.kids) = 3

AssignedValue == Top.node.kids[Len(Top.node.kids)]

AssignedValueId == Append(Top.path, Len(Top.node.kids))

AssignedNames ==
    IF Top.node.type = "Assign"
    THEN TargetNames(SubSeq(Top.node.kids, 1, Len(Top.node.kids) - 1))
    ELSE TargetNames(<<Top.node.kids[1]>>)

\* the traversal goes on with the children of the node, then its siblings
Continues == pc' = "visit" /\ exc' = None /\ stack' = Entries(Top.node, Top.path) \o Tail(stack)

\* records owned by name N
Owned(N) == {i \in 1..Len(records) : records[i].name = N}

\* the records that exist before the step are the same after it
OldRecordsKept(except) ==
    /\ Len(records') >= Len(records)
    /\ \A i \in 1..Len(records) : i \notin except => records'[i] = records[i]

\* C1: visiting an assignment (plain, or annotated with a value) whose
\* right-hand side is not a call raises no error, creates no record, leaves
\* the record store and the alias table unchanged, and the traversal goes on.
C1_NonCallAssignmentIsNoOp ==
    [][(IsAssignment /\ AssignedValue.type /= "Call") =>
            /\ Continues
            /\ records' = records
            /\ by_name' = by_name
            /\ aliases' = aliases]_vars

\* C2: for every kind K with release methods and every method m of K: when
\* name N owns exactly one record, unreleased and of kind K, visiting the
\* call N.m(..) marks that record released.
C2_EveryKindReleasable ==
    [][\A k \in 1..Len(RELEASE_METHODS) : \A m \in RELEASE_METHODS[k].methods :
        \A r \in 1..Len(records) :
            (/\ Visiting({"Call"})
             /\ Truthy(records[r].name)
             /\ Top.node.kids[1] = Attribute(Name(records[r].name), m)
             /\ Owned(records[r].name) = {r}
             /\ ~records[r].released
             /\ records[r].kind = RELEASE_METHODS[k].kind)
            => records'[r].released]_vars

\* The (name, kind) of the release event that visiting the node on top of the
\* stack is, <<>> when it is none.
ReleaseEvent ==
    IF Visiting({"Call"}) THEN
        LET func == Top.node.kids[1] IN
        IF func.type = "Attribute" /\ func.kids[1].type = "Name" /\ ReleaseKind(func.id) /= None
        THEN <<func.kids[1].id, ReleaseKind(func.id)>>
        ELSE IF func.type = "Name" THEN <<func.id, "context_cancel">>
        ELSE <<>>
    ELSE IF Visiting({"Await"}) /\ Top.node.kids[1].type = "Name"
    THEN <<Top.node.kids[1].id, "asyncio_task">>
    ELSE <<>>

\* index of the earliest-created unreleased record of name N and kind K, or 0
Earliest(N, K) ==
    LET S == {i \in 1..Len(records) :
                records[i].name = N /\ records[i].kind = K /\ ~records[i].released} IN
    IF S = {} THEN 0 ELSE CHOOSE i \in S : \A j \in S : i <= j

\* C3: a release event for name N and kind K marks the earliest-created
\* record of N that is unreleased and of kind K, and no other record.
C3_ReleaseMarksEarliest ==
    [][ReleaseEvent /= <<>> =>
        LET e == Earliest(ReleaseEvent[1], ReleaseEvent[2]) IN
        /\ e /= 0 => records'[e] = [records[e] EXCEPT !.released = TRUE]
        /\ OldRecordsKept({e})]_vars

\* after a = open(..); a = open(..); a.close(): the first record is released,
\* the second is not
C3_Witness ==
    /\ pc = "visit" /\ line = 3
    /\ records = << [name |-> "a", kind |-> "file_handle", lineno |-> 1, released |-> TRUE],
                    [name |-> "a", kind |-> "file_handle", lineno |-> 2, released |-> FALSE] >>

\* --- nodes of the statement being visited
RECURSIVE Sub(_, _)
Sub(node, rest) == IF rest = <<>> THEN node ELSE Sub(node.kids[Head(rest)], Tail(rest))

\* the node with identity p, a node of the current statement
NodeAt(p) == Sub(stmt, Tail(p))

Parent(p) == SubSeq(p, 1, Len(p) - 1)

RECURSIVE PathsOf(_, _)
PathsOf(node, path) ==
    {path} \cup UNION {PathsOf(node.kids[i], Append(path, i)) : i \in 1..Len(node.kids)}

\* identities of the call nodes of the current statement
CallPaths == {p \in PathsOf(stmt, <<line>>) : NodeAt(p).type = "Call"}

Registered(p) == _call_signature(aliases, NodeAt(p)) \in DOMAIN TARGET_SIGS

\* p is the right-hand side of an assignment
IsAssignedValue(p) ==
    /\ Len(p) >= 2
    /\ LET parent == NodeAt(Parent(p)) IN
       \/ parent.type = "Assign" /\ p[Len(p)] = Len(parent.kids)
       \/ parent.type = "AnnAssign" /\ Len(parent.kids) = 3 /\ p[Len(p)] = 3

\* the names bound by the assignment whose right-hand side p is
BoundNames(p) ==
    LET parent == NodeAt(Parent(p)) IN
    IF parent.type = "Assign"
    THEN TargetNames(SubSeq(parent.kids, 1, Len(parent.kids) - 1))
    ELSE TargetNames(<<parent.kids[1]>>)

\* p is the managed expression of a with-item
IsWithItemExpr(p) ==
    /\ Len(p) >= 3
    /\ NodeAt(Parent(p)).type = "withitem"
    /\ p[Len(p)] = 1

\* number of records created for node p
Count(p) == Cardinality({i \in 1..Len(origin) : origin[i] = p})

\* C4 as stated: the record store never holds two records created for the
\* same call node.
C4_OneRecordPerNode ==
    \A i, j \in 1..Len(origin) : origin[i] = origin[j] => i = j

\* C4, amended: a record of the statement being visited was created for a
\* call node, and it is the only record of that node, except for the
\* right-hand side of an assignment that binds n >= 2 names to a kind other
\* than context_cancel, which has exactly n records.
C4_RecordsPerNode ==
    pc = "visit" =>
        \A i \in 1..Len(origin) :
            origin[i][1] = line =>
                LET p == origin[i]
                    n == IF IsAssignedValue(p) THEN Len(BoundNames(p)) ELSE 0 IN
                /\ NodeAt(p).type = "Call"
                /\ IF n >= 2 /\ records[i].kind /= "context_cancel"
                   THEN Count(p) = n
                   ELSE Count(p) = 1

\* an assignment of a call to one name has been visited, its call node too,
\* and the node has one record
C4_Witness ==
    /\ pc = "visit" /\ stack = <<>>
    /\ \E p \in CallPaths :
        IsAssignedValue(p) /\ Len(BoundNames(p)) = 1 /\ Count(p) = 1

\* C5: no record is ever created for the managed expression of a with-item;
\* a call with a registered signature in the body of the statement or in the
\* arguments of the managed call has its record.
C5_WithItemsExempt ==
    pc = "visit" =>
        /\ \A i \in 1..Len(origin) : origin[i][1] = line => ~IsWithItemExpr(origin[i])
        /\ (stack = <<>> /\ stmt.type \in {"With", "AsyncWith"}) =>
                \A p \in CallPaths : (Registered(p) /\ ~IsWithItemExpr(p)) => Count(p) = 1
        /\ (stack = <<>> /\ line = 1 /\ stmt = With(<<withitem(open_call, <<a>>)>>, <<Pass>>)) =>
                records = <<>>

\* `with lock, open(..), socket.socket() as a: open(..)` has been visited:
\* the only record is the one of the body
C5_Witness ==
    /\ pc = "visit" /\ stack = <<>> /\ line = 1
    /\ stmt.type = "With" /\ Len(stmt.kids) = 4
    /\ Len(records) = 1
    /\ origin = << <<1, 4, 1>> >>

\* the kind a call is classified as, None when it is no acquisition
KindOf(call) ==
    LET sig == _call_signature(aliases, call) IN
    IF sig \in DOMAIN TARGET_SIGS THEN TARGET_SIGS[sig] ELSE None

\* record i goes from unreleased to released in the step
Flips(i) == i <= Len(records') /\ ~records[i].released /\ records'[i].released

\* the step is the report of a file; NewIssues are the issues it adds
Reporting == pc = "visit" /\ pc' = "main"

NewIssues == SubSeq(issues', Len(issues) + 1, Len(issues'))

Unreleased == {i \in 1..Len(records) : ~records[i].released}

\* position in the report of the unreleased record i
Position(i) == Cardinality({j \in Unreleased : j <= i})

Issue(i) == [path |-> fileNo, lineno |-> records[i].lineno, kind |-> records[i].kind]

\* C6: an assignment binding two or more names to a call classified as
\* context_cancel creates exactly one record, owned by the second name; a
\* bare-name call of a name releases the earliest unreleased context_cancel
\* record of that name; a context_cancel record is released by nothing but a
\* bare-name call of its owner (so not by a call of the first name, and a
\* record whose owner is never called stays unreleased).
C6_CancelConvention ==
    [][/\ (/\ IsAssignment
           /\ AssignedValue.type = "Call"
           /\ KindOf(AssignedValue) = "context_cancel"
           /\ Len(AssignedNames) >= 2)
          => records' = Append(records, [name |-> AssignedNames[2], kind |-> "context_cancel",
                                         lineno |-> line, released |-> FALSE])
       /\ (/\ Visiting({"Call"})
           /\ Top.node.kids[1].type = "Name"
           /\ Earliest(Top.node.kids[1].id, "context_cancel") /= 0)
          => records'[Earliest(Top.node.kids[1].id, "context_cancel")].released
       /\ \A i \in 1..Len(records) :
            (records[i].kind = "context_cancel" /\ Flips(i))
            => Visiting({"Call"}) /\ Top.node.kids[1] = Name(records[i].name)]_vars

\* a, b = context.WithCancel() was followed by b(): the record of b is released
C6_Witness ==
    /\ pc = "visit"
    /\ records = << [name |-> "b", kind |-> "context_cancel", lineno |-> 1, released |-> TRUE] >>
    /\ origin = << <<1, 2>> >>

\* C7: a record without an owner name is unreleased in every state, and the
\* report of the file has its issue.
C7_AnonymousNeverReleased ==
    /\ [](\A i \in 1..Len(records) : records[i].name = None => ~records[i].released)
    /\ [][Reporting =>
            \A i \in 1..Len(records) : records[i].name = None =>
                /\ Position(i) <= Len(NewIssues)
                /\ NewIssues[Position(i)] = Issue(i)]_vars

\* an anonymous record of line 1 has gone through two more statements, the
\* last of them a release
C7_Witness ==
    /\ pc = "visit" /\ stack = <<>> /\ line = 3
    /\ stmt \in ReleaseStmts
    /\ Len(records) >= 1
    /\ records[1].name = None /\ records[1].lineno = 1 /\ ~records[1].released

\* C8: a file that cannot be read or parsed yields no issue, raises nothing,
\* and the scan goes on with the next file.
C8_BadFileIsSkipped ==
    [][(pc = "main" /\ fileNo' = fileNo + 1 /\ pc' /= "visit") =>
            /\ pc' = "main"
            /\ exc' = None
            /\ issues' = issues]_vars

\* C9: name = asyncio.create_task(..) creates one asyncio_task record of that
\* name at the line of the assignment; `await name` releases the earliest
\* unreleased one; nothing but `await name` and name.cancel() releases it;
\* name.cancel() with no unreleased task of that name changes nothing; the
\* report has one asyncio_task issue per unreleased asyncio_task record, at
\* its line.
C9_TaskLifecycle ==
    [][/\ (/\ IsAssignment
           /\ AssignedValue.type = "Call"
           /\ KindOf(AssignedValue) = "asyncio_task"
           /\ Len(AssignedNames) = 1)
          => records' = Append(records, [name |-> AssignedNames[1], kind |-> "asyncio_task",
                                         lineno |-> line, released |-> FALSE])
       /\ (/\ Visiting({"Await"})
           /\ Top.node.kids[1].type = "Name"
           /\ Earliest(Top.node.kids[1].id, "asyncio_task") /= 0)
          => records'[Earliest(Top.node.kids[1].id, "asyncio_task")].released
       /\ \A i \in 1..Len(records) :
            (records[i].kind = "asyncio_task" /\ Flips(i))
            => \/ Visiting({"Await"}) /\ Top.node.kids[1] = Name(records[i].name)
               \/ Visiting({"Call"}) /\ Top.node.kids[1] = Attribute(Name(records[i].name), "cancel")
       /\ \A N \in {"a", "b"} :
            (/\ Visiting({"Call"})
             /\ Top.node.kids[1] = Attribute(Name(N), "cancel")
             /\ Earliest(N, "asyncio_task") = 0)
            => records' = records
       /\ Reporting =>
            \A L \in 1..line :
                Cardinality({k \in 1..Len(NewIssues) :
                    NewIssues[k] = [path |-> fileNo, lineno |-> L, kind |-> "asyncio_task"]})
                = Cardinality({i \in Unreleased :
                    records[i].kind = "asyncio_task" /\ records[i].lineno = L})]_vars

\* a = asyncio.create_task(..) at line 1 and `await a` at line 2 have been
\* visited: the record is released
C9_Witness ==
    /\ pc = "visit" /\ stack = <<>> /\ line = 2
    /\ stmt = Expr(Await(a))
    /\ records = << [name |-> "a", kind |-> "asyncio_task", lineno |-> 1, released |-> TRUE] >>

\* C10: the issues a file adds are, in the order of the records, one issue for
\* each unreleased record, with its line and kind, and nothing else.
C10_ReportIsUnreleased ==
    [][Reporting =>
        /\ Len(issues') = Len(issues) + Cardinality(Unreleased)
        /\ SubSeq(issues', 1, Len(issues)) = issues
        /\ \A i \in Unreleased : NewIssues[Position(i)] = Issue(i)]_vars

\* the file `a = open(..)` has been reported: one issue, file_handle, line 1
C10_Witness ==
    /\ pc = "main" /\ fileNo = 1 /\ used = 1
    /\ issues = << [path |-> 1, lineno |-> 1, kind |-> "file_handle"] >>

\* --- imports and the names they bring (files followed with `seen`)
\* the names `from M import *` brings into a file, for the modules of FileStmts
StarExports == ("subprocess" :> {"Popen"}) @@ ("os" :> {"popen"}) @@ ("socket" :> {"socket"})

IsStarImport(s) ==
    /\ s.type = "ImportFrom"
    /\ \E k \in 1..Len(s.kids) : s.kids[k].id = "*"

\* the names brought by the star imports visited so far in the file
StarNames ==
    UNION {StarExports[seen[i].id] :
            i \in {j \in 1..Len(seen) : IsStarImport(seen[j]) /\ seen[j].id \in DOMAIN StarExports}}

\* C11: visiting `from M import *` leaves the alias table as it is, and a
\* later call through a name that the star import brought (and nothing else
\* binds) has no registered signature and creates no record.
C11_StarImportsUntracked ==
    [][/\ (Visiting({"ImportFrom"}) /\ IsStarImport(Top.node)) => aliases' = aliases
       /\ (/\ Visiting({"Call"})
           /\ Top.node.kids[1].type = "Name"
           /\ Top.node.kids[1].id \in StarNames
           /\ Top.node.kids[1].id \notin DOMAIN aliases)
          => /\ KindOf(Top.node) = None
             /\ Len(records') = Len(records)]_vars

\* the statements of the file whose visit has begun
Visited ==
    IF stack /= <<>> /\ Top.path = <<line>> THEN SubSeq(seen, 1, line - 1) ELSE seen

\* the bindings <<local name, module, symbol>> an import statement declares,
\* in order; symbol is None for `import M`
Declared(s) ==
    LET local(al) == IF Truthy(al.asname) THEN al.asname ELSE al.id
        one(al) == IF s.type = "Import" THEN <<local(al), al.id, None>>
                   ELSE <<local(al), s.id, al.id>> IN
    [k \in 1..Len(s.kids) |-> one(s.kids[k])]

RECURSIVE DeclaredIn(_)
DeclaredIn(body) ==
    IF body = <<>> THEN <<>>
    ELSE LET s == Head(body) IN
         (IF s.type \in {"Import", "ImportFrom"}
          THEN SelectSeq(Declared(s), LAMBDA d : d[1] /= "*")
          ELSE <<>>) \o DeclaredIn(Tail(body))

\* the most recently visited binding of local name L, <<>> when there is none
LastBinding(L) ==
    LET ds == DeclaredIn(Visited)
        hits == {i \in 1..Len(ds) : ds[i][1] = L} IN
    IF hits = {} THEN <<>> ELSE ds[CHOOSE i \in hits : \A j \in hits : i >= j]

LocalNames == {DeclaredIn(Visited)[i][1] : i \in 1..Len(DeclaredIn(Visited))}

\* C12: for every local name L whose most recently visited binding is
\* `from M import S` or `from M import S as L`, the bare call L(..) resolves
\* to the signature (M, S), and so does the attribute call M.S(..).
C12_AliasAwareResolution ==
    pc = "visit" =>
        \A L \in LocalNames :
            LET d == LastBinding(L) IN
            Truthy(d[3]) =>
                /\ _call_signature(aliases, Call(Name(L), <<>>)) = <<d[2], d[3]>>
                /\ _call_signature(aliases, Call(Attribute(Name(d[2]), d[3]), <<>>)) = <<d[2], d[3]>>

\* p is an acquisition site that nothing tracks: a call with a registered
\* signature that is neither the right-hand side of an assignment nor the
\* managed expression of a with-item
Untracked(p) == Registered(p) /\ ~IsAssignedValue(p) /\ ~IsWithItemExpr(p)

\* C13: visiting an untracked acquisition site appends exactly one record,
\* anonymous, unreleased, of the call's kind and at its line; once the
\* statement is visited every such site of it has exactly that one record,
\* also a site that is an argument or the receiver of another call, classified
\* by an assignment or exempted by a with-item as that call may be.
C13_OneRecordPerUntrackedSite ==
    /\ [][(Visiting({"Call"}) /\ Untracked(Top.path)) =>
            /\ Len(records') = Len(records) + 1
            /\ records'[Len(records')] = [name |-> None, kind |-> KindOf(Top.node),
                                          lineno |-> line, released |-> FALSE]
            /\ origin' = Append(origin, Top.path)]_vars
    /\ []((pc = "visit" /\ stack = <<>> /\ line > 0) =>
            \A p \in CallPaths : Untracked(p) =>
                /\ Count(p) = 1
                /\ \A i \in 1..Len(origin) : origin[i] = p =>
                        records[i].name = None /\ records[i].lineno = line)

\* a = subprocess.Popen(cmd, stdout=open(..)) has been visited: the Popen is
\* recorded under a, the open(..) of the keyword argument anonymously
C13_Witness ==
    /\ pc = "visit" /\ stack = <<>> /\ line = 1
    /\ records = << [name |-> "a", kind |-> "popen_handle", lineno |-> 1, released |-> FALSE],
                    [name |-> None, kind |-> "file_handle", lineno |-> 1, released |-> FALSE] >>
    /\ origin = << <<1, 2>>, <<1, 2, 3, 1>> >>

\* --- the analysis of one file, on its own
\* an Analyzer with nothing in it
Fresh == [aliases |-> EmptyDict, records |-> <<>>, by_name |-> EmptyDict,
          safe_calls |-> {}, assigned_calls |-> {}, exc |-> None]

\* what visiting one node does to an Analyzer
Handle(self, node, path) ==
    LET n == Len(node.kids) IN
    CASE node.type = "Assign" ->
            _handle_assignment(self, SubSeq(node.kids, 1, n - 1), node.kids[n],
                               Append(path, n), Lineno(path))
      [] node.type = "AnnAssign" ->
            IF n = 3
            THEN _handle_assignment(self, <<node.kids[1]>>, node.kids[3], Append(path, 3), Lineno(path))
            ELSE self
      [] node.type = "Import" -> visit_Import(self, node.kids)
      [] node.type = "ImportFrom" ->
            visit_ImportFrom(self, IF Truthy(node.id) THEN node.id ELSE "", node.kids)
      [] node.type \in {"With", "AsyncWith"} -> _mark_safe(self, WithItems(Entries(node, path)))
      [] node.type = "Call" -> visit_Call(self, node, path)
      [] node.type = "Await" -> visit_Await(self, node)
      [] OTHER -> self

\* the pre-order walk of the nodes `todo`, the next one first
RECURSIVE Walk(_, _)
Walk(self, todo) ==
    IF todo = <<>> \/ self.exc /= None THEN self
    ELSE LET top == Head(todo)
             down == IF top.node.type \in {"Import", "ImportFrom"} THEN <<>>
                     ELSE Entries(top.node, top.path) IN
         Walk(Handle(self, top.node, top.path), down \o Tail(todo))

\* the diagnostics of a file with this body, analysed alone
Diagnose(body, path) ==
    report(Walk(Fresh, [i \in 1..Len(body) |-> [node |-> body[i], path |-> <<i>>]]).records, path)

\* C14: the analysis of every file starts from an empty alias table, record
\* store and exemption sets, and the diagnostics a file adds to the scan are
\* those of its body analysed alone, whichever files came before it.
C14_PerFileIsolation ==
    [][/\ (pc = "main" /\ pc' = "visit") =>
            /\ aliases' = EmptyDict
            /\ records' = <<>>
            /\ by_name' = EmptyDict
            /\ safe_calls' = {}
            /\ assigned_calls' = {}
       /\ Reporting =>
            /\ SubSeq(issues', 1, Len(issues)) = issues
            /\ NewIssues = Diagnose(seen, fileNo)]_vars

\* two files of one statement each have been reported, each with a
\* file_handle diagnostic at its line 1
C14_Witness ==
    /\ pc = "main" /\ fileNo = 2 /\ used = 2
    /\ issues = << [path |-> 1, lineno |-> 1, kind |-> "file_handle"],
                   [path |-> 2, lineno |-> 1, kind |-> "file_handle"] >>

\* C15: in every step of the traversal of a file the records that exist stay
\* where they are, with their owner, kind and line, and a record that is
\* released stays released.
C15_RecordStoreMonotone ==
    [][(pc = "visit" /\ pc' /= "main") =>
        /\ Len(records') >= Len(records)
        /\ \A i \in 1..Len(records) :
            /\ records'[i].name = records[i].name
            /\ records'[i].kind = records[i].kind
            /\ records'[i].lineno = records[i].lineno
            /\ records[i].released => records'[i].released]_vars

\* a = open(..); a.close(); a = open(..): the released record of line 1 is
\* still the first one, released, when the record of line 3 has been added
C15_Witness ==
    /\ pc = "visit" /\ line = 3
    /\ records = << [name |-> "a", kind |-> "file_handle", lineno |-> 1, released |-> TRUE],
                    [name |-> "a", kind |-> "file_handle", lineno |-> 3, released |-> FALSE] >>

\* the priority order of the kinds that have release methods
Priority == <<"file_handle", "socket_handle", "popen_handle", "asyncio_task">>

MethodsOf(K) == UNION {RELEASE_METHODS[i].methods : i \in {j \in 1..Len(RELEASE_METHODS) : RELEASE_METHODS[j].kind = K}}

\* the first kind of the order whose release methods hold m, None when no kind does
FirstKind(m) ==
    LET hits == {i \in 1..Len(Priority) : m \in MethodsOf(Priority[i])} IN
    IF hits = {} THEN None ELSE Priority[CHOOSE i \in hits : \A j \in hits : i <= j]

\* C16: visiting the attribute call N.m(..) on a simple name N releases for
\* one kind only, the first of file_handle, socket_handle, popen_handle,
\* asyncio_task whose release methods hold m: the earliest unreleased record
\* of N of that kind is marked when there is one, and no other record
\* changes, also when N has no such record; so N.close() marks nothing but a
\* file_handle record.
C16_FirstMatchWins ==
    [][(/\ Visiting({"Call"})
        /\ Top.node.kids[1].type = "Attribute"
        /\ Top.node.kids[1].kids[1].type = "Name") =>
            LET N == Top.node.kids[1].kids[1].id
                m == Top.node.kids[1].id
                K == FirstKind(m)
                e == IF K = None THEN 0 ELSE Earliest(N, K) IN
            /\ e /= 0 => records'[e].released
            /\ \A i \in 1..Len(records) : Flips(i) => i = e
            /\ m = "close" => \A i \in 1..Len(records) : Flips(i) => records[i].kind = "file_handle"]_vars

\* a = socket.socket(); a.close(): close was tried for file_handle only and
\* the socket_handle record is as it was
C16_Witness ==
    /\ pc = "visit" /\ stack = <<>> /\ line = 2
    /\ stmt = Expr(Call(Attribute(a, "close"), <<>>))
    /\ records = << [name |-> "a", kind |-> "socket_handle", lineno |-> 1, released |-> FALSE] >>

\* C17: an assignment that binds n >= 1 names, through chained targets and
\* tuple or list unpacking, to a call of a kind other than context_cancel
\* appends exactly n records, one per name in the order of the names, all of
\* that kind, at the line, unreleased; a release event for a name marks only
\* a record of that name; the file `a = b = open(..); a.close()` reports
\* exactly one file_handle, the record of b.
C17_FanOutAssignment ==
    [][/\ (/\ IsAssignment
           /\ AssignedValue.type = "Call"
           /\ KindOf(AssignedValue) \notin {None, "context_cancel"}
           /\ Len(AssignedNames) >= 1)
          => records' = records \o
                [k \in 1..Len(AssignedNames) |->
                    [name |-> AssignedNames[k], kind |-> KindOf(AssignedValue),
                     lineno |-> line, released |-> FALSE]]
       /\ ReleaseEvent /= <<>> =>
            \A i \in 1..Len(records) : Flips(i) => records[i].name = ReleaseEvent[1]
       /\ (Reporting /\ seen = <<Assign(<<a, b>>, open_call), Expr(Call(Attribute(a, "close"), <<>>))>>)
          => /\ records = << [name |-> "a", kind |-> "file_handle", lineno |-> 1, released |-> TRUE],
                             [name |-> "b", kind |-> "file_handle", lineno |-> 1, released |-> FALSE] >>
             /\ NewIssues = <<[path |-> fileNo, lineno |-> 1, kind |-> "file_handle"]>>]_vars

\* (a, [b]) = c = socket.socket() has been visited: three records, of a, b
\* and c, for the one call
C17_Witness ==
    /\ pc = "visit" /\ stack = <<>> /\ line = 1
    /\ [i \in 1..Len(records) |-> records[i].name] = <<"a", "b", "c">>
    /\ \A i \in 1..Len(records) : records[i].kind = "socket_handle" /\ origin[i] = <<1, 3>>

\* C18: a release event for name N and kind K (an attribute call with a
\* release method, a bare-name call, an await of a bare name) changes nothing
\* but the released flag of the earliest unreleased record of N of kind K:
\* every other record that exists (of another name, of N with another kind,
\* anonymous) is as it was, and so are by_name, the alias table and the
\* exemption sets; when N has no such record no record changes; no error is
\* raised.  (A call that is itself an untracked acquisition site still gets
\* its own new record, which is no effect of the release.)
C18_ReleaseFrame ==
    [][ReleaseEvent /= <<>> =>
        LET e == Earliest(ReleaseEvent[1], ReleaseEvent[2])
            own == IF Visiting({"Call"}) /\ Untracked(Top.path) THEN 1 ELSE 0 IN
        /\ Len(records') = Len(records) + own
        /\ \A i \in 1..Len(records) :
                records'[i] = IF i = e THEN [records[i] EXCEPT !.released = TRUE] ELSE records[i]
        /\ by_name' = by_name
        /\ aliases' = aliases
        /\ safe_calls' = safe_calls
        /\ assigned_calls' = assigned_calls
        /\ Continues]_vars

\* a = open(..); a.wait(): the file_handle record of a is as it was
C18_Witness ==
    /\ pc = "visit" /\ stack = <<>> /\ line = 2
    /\ stmt = Expr(Call(Attribute(a, "wait"), <<>>))
    /\ records = << [name |-> "a", kind |-> "file_handle", lineno |-> 1, released |-> FALSE] >>

\* the (name, kind) of the release event that visiting `node` is, <<>> when
\* it is none
EventOf(node) ==
    IF node.type = "Call" THEN
        LET func == node.kids[1] IN
        IF func.type = "Attribute" /\ func.kids[1].type = "Name" /\ FirstKind(func.id) /= None
        THEN <<func.kids[1].id, FirstKind(func.id)>>
        ELSE IF func.type = "Name" THEN <<func.id, "context_cancel">>
        ELSE <<>>
    ELSE IF node.type = "Await" /\ node.kids[1].type = "Name"
    THEN <<node.kids[1].id, "asyncio_task">>
    ELSE <<>>

\* the release events among the nodes of a statement
RECURSIVE EventsIn(_)
EventsIn(node) ==
    ({EventOf(node)} \ {<<>>}) \cup UNION {EventsIn(node.kids[k]) : k \in 1..Len(node.kids)}

\* some statement from the line of record i on holds a release event for
\* the record's owner and kind
ReleasedLater(i) ==
    \E j \in records[i].lineno..Len(seen) : <<records[i].name, records[i].kind>> \in EventsIn(seen[j])

\* C19: a record is unreleased when it is created, whatever releases were
\* visited before; it is released only if a release event for its owner and
\* kind is visited from its line on; a record with no such event is
\* unreleased at the end and the report of the file has its issue.
C19_ReleaseNotRetroactive ==
    /\ []((pc = "visit") => \A i \in 1..Len(records) : records[i].released => ReleasedLater(i))
    /\ [][pc' = "visit" =>
            \A i \in (Len(records) + 1)..Len(records') : ~records'[i].released]_vars
    /\ [][Reporting =>
            \A i \in 1..Len(records) : ~ReleasedLater(i) =>
                /\ i \in Unreleased
                /\ NewIssues[Position(i)] = Issue(i)]_vars

\* a.close(); a: T = open(..): the record of a, created after the close, is
\* unreleased
C19_Witness ==
    /\ pc = "visit" /\ stack = <<>>
    /\ seen = <<Expr(Call(Attribute(a, "close"), <<>>)), AnnAssign(a, <<open_call>>)>>
    /\ records = << [name |-> "a", kind |-> "file_handle", lineno |-> 2, released |-> FALSE] >>

====
